---- MODULE Spec2Model ----
(***************************************************************************)
(* Model of the MCQ review application (src/main.py) and of its CSV        *)
(* exporter (src/json_to_csv.py).                                          *)
(*                                                                         *)
(* Python values are tagged records, a dict is the sequence of its         *)
(* (key, value) entries in insertion order with unique keys, a list of     *)
(* dicts is a sequence of such sequences.  The Thai field names of the     *)
(* source are written in ASCII: topic, prompt, optA..optD, answer,         *)
(* explanation, merge_note; 'Chapter' and 'status' are the source's own.   *)
(* current_index is 0-based as in the source; positions inside a TLA+      *)
(* sequence are 1-based, so list[i] of the source is list[i + 1] here.      *)
(***************************************************************************)
EXTENDS Integers, Sequences, FiniteSets, TLC

VARIABLES
    file,              \* data.json: [exists, objs, whole]
    sheet,             \* sheet1 of the spreadsheet: rows of cell texts
    remoteConfigured,  \* sheet id and service-account credentials are present
    questions,         \* the list load_data() returned to the current run
    page,              \* what the last script run rendered: review, empty, error
    selected_chapter,  \* value of the sidebar selectbox
    current_index,     \* st.session_state.current_index
    edit_mode,         \* st.session_state.edit_mode
    warning,           \* the st.warning of the last load_data / save_data
    op,                \* the operation that produced this state
    trail,             \* the last store calls, oldest first
    saves,             \* number of save_data calls made so far
    export             \* export.csv: [header, rows]

vars == <<file, sheet, remoteConfigured, questions, page, selected_chapter,
          current_index, edit_mode, warning, op, trail, saves, export>>

----------------------------------------------------------------------------
\* Bounds of the model.

MaxRecs == 4
MaxStoreRecs == 2
MaxSheetRecs == 1
MaxExportRecs == 3
MaxSaves == 1

----------------------------------------------------------------------------
\* Python values and dicts.

IntV(n) == [t |-> "int", n |-> n, s |-> ""]
StrV(s) == [t |-> "str", n |-> 0, s |-> s]
NoneV == [t |-> "none", n |-> 0, s |-> ""]

Entry(k, v) == [k |-> k, v |-> v]

Range(seq) == {seq[i] : i \in DOMAIN seq}

\* d.keys(), in insertion order
KeysOf(d) == [i \in DOMAIN d |-> d[i].k]

\* k in d
Has(d, k) == \E i \in DOMAIN d : d[i].k = k

\* d.get(k, dflt)
Get(d, k, dflt) ==
    IF Has(d, k) THEN d[CHOOSE i \in DOMAIN d : d[i].k = k].v ELSE dflt

\* d[k] = v: an existing key keeps its place, a new key goes last
SetItem(d, k, v) ==
    IF Has(d, k)
    THEN [i \in DOMAIN d |-> IF d[i].k = k THEN Entry(k, v) ELSE d[i]]
    ELSE Append(d, Entry(k, v))

\* a == b on dicts: same keys with the same values, whatever the order
DictEq(a, b) == Range(a) = Range(b)

\* a == b on lists of dicts
ListEq(x, y) ==
    /\ Len(x) = Len(y)
    /\ \A i \in DOMAIN x : DictEq(x[i], y[i])

\* list.index(x), as a 1-based position: the first element equal to x
ListIndex(list, x) ==
    CHOOSE i \in DOMAIN list :
        /\ DictEq(list[i], x)
        /\ \A j \in 1..(i - 1) : ~DictEq(list[j], x)

\* dict(pairs): entries inserted one after the other
RECURSIVE DictOf(_)
DictOf(pairs) ==
    IF pairs = <<>> THEN <<>>
    ELSE LET n == Len(pairs)
         IN SetItem(DictOf(SubSeq(pairs, 1, n - 1)), pairs[n].k, pairs[n].v)

----------------------------------------------------------------------------
\* Texts and numbers.

DigitText == <<"0", "1", "2", "3", "4", "5", "6", "7", "8", "9">>

\* str(n) for the one-digit numbers of the model
ToStr(n) == DigitText[n + 1]

IsIntText(s) == \E n \in 0..9 : DigitText[n + 1] = s

ParseInt(s) == CHOOSE n \in 0..9 : DigitText[n + 1] = s

\* s.strip() == ''
IsBlank(s) == s \in {"", " "}

\* int(v): [ok |-> the call returned, v |-> its result]
PyInt(v) ==
    IF v.t = "int" THEN [ok |-> TRUE, v |-> v]
    ELSE IF v.t = "str" /\ IsIntText(v.s) THEN [ok |-> TRUE, v |-> IntV(ParseInt(v.s))]
    ELSE [ok |-> FALSE, v |-> v]

----------------------------------------------------------------------------
\* data.json.

AbsentFile == [exists |-> FALSE, objs |-> <<>>, whole |-> TRUE]

\* json.dump(data, f): the objects of the array, members in key order
JsonDump(data) == [exists |-> TRUE, objs |-> data, whole |-> TRUE]

\* json.load(f): every object becomes a dict; raises on a text that is no
\* complete JSON document
JsonLoad(f) ==
    IF f.whole
    THEN [ok |-> TRUE, data |-> [i \in DOMAIN f.objs |-> DictOf(f.objs[i])]]
    ELSE [ok |-> FALSE, data |-> <<>>]

load_from_json(f) ==
    IF ~f.exists THEN [ok |-> TRUE, data |-> <<>>] ELSE JsonLoad(f)

save_to_json(data) == JsonDump(data)

\* open(path, 'w') truncates data.json, json.dump then writes the text piece
\* by piece: a process that stops after n objects leaves this file
TruncatedFile(data, n) ==
    [exists |-> TRUE, objs |-> SubSeq(data, 1, n), whole |-> FALSE]

----------------------------------------------------------------------------
\* The spreadsheet, as gspread shows it: a grid of cell texts, the first row
\* the header.

CellAt(row, j) == IF j <= Len(row) THEN row[j] ELSE ""

\* gspread's numericise: a text that reads as a number comes back a number
Numericise(text) == IF IsIntText(text) THEN IntV(ParseInt(text)) ELSE StrV(text)

\* ws.get_all_records(): one dict per row under the header, keyed by it
get_all_records(sh) ==
    IF Len(sh) = 0 THEN <<>>
    ELSE [i \in 1..(Len(sh) - 1) |->
            DictOf([j \in DOMAIN sh[1] |->
                      Entry(sh[1][j], Numericise(CellAt(sh[i + 1], j)))])]

\* the text a cell shows for a value written to it
CellText(v) == IF v.t = "int" THEN ToStr(v.n) ELSE v.s

\* a sequence without its repeats, first occurrences kept in order
RECURSIVE FirstSeen(_)
FirstSeen(seq) ==
    IF seq = <<>> THEN <<>>
    ELSE LET n == Len(seq)
             init == FirstSeen(SubSeq(seq, 1, n - 1))
         IN IF seq[n] \in Range(init) THEN init ELSE Append(init, seq[n])

\* the keys of all dicts of a list, record after record
RECURSIVE AllKeys(_)
AllKeys(data) ==
    IF data = <<>> THEN <<>> ELSE KeysOf(Head(data)) \o AllKeys(Tail(data))

----------------------------------------------------------------------------
\* load_data and save_data.

LoadFailSteps == {"import", "credentials", "open", "read"}
LoadOutcomes == {"ok"} \cup LoadFailSteps
SaveOutcomes == {"ok", "fail_before_clear", "fail_update"}

\* r['Chapter'] = int(r['Chapter']) under try / except: pass
CoerceChapter(r) ==
    IF Has(r, "Chapter")
    THEN LET c == PyInt(Get(r, "Chapter", NoneV))
         IN IF c.ok THEN SetItem(r, "Chapter", c.v) ELSE r
    ELSE r

\* a blank string becomes None
EmptyToNone(r) ==
    [i \in DOMAIN r |->
        IF r[i].v.t = "str" /\ IsBlank(r[i].v.s) THEN Entry(r[i].k, NoneV) ELSE r[i]]

NormalizeRecord(r) == EmptyToNone(CoerceChapter(r))

\* load_data() whose except branch returns no record instead of data.json
load_data_no_fallback(cfg, remote, f, sh) ==
    IF cfg /\ remote = "ok"
    THEN LET records == get_all_records(sh)
         IN [ok |-> TRUE,
             data |-> [i \in DOMAIN records |-> NormalizeRecord(records[i])],
             served |-> "sheet", warning |-> ""]
    ELSE IF cfg
    THEN [ok |-> TRUE, data |-> <<>>, served |-> "fallback", warning |-> "load"]
    ELSE LET j == load_from_json(f)
         IN [ok |-> j.ok, data |-> j.data, served |-> "file", warning |-> ""]

\* load_data(): cfg says whether the Sheets branch is taken, remote what the
\* remote calls of this run do.  served names the branch that returned.
load_data(cfg, remote, f, sh) ==
    IF cfg /\ remote = "ok"
    THEN LET records == get_all_records(sh)
         IN [ok |-> TRUE,
             data |-> [i \in DOMAIN records |-> NormalizeRecord(records[i])],
             served |-> "sheet", warning |-> ""]
    ELSE LET j == load_from_json(f)
         IN [ok |-> j.ok, data |-> j.data,
             served |-> IF cfg THEN "fallback" ELSE "file",
             warning |-> IF cfg THEN "load" ELSE ""]

\* the columns taken from the first record alone
save_keys_first_row(data) == IF data = <<>> THEN <<>> ELSE KeysOf(data[1])

\* the columns save_data writes
save_keys(data) == FirstSeen(AllKeys(data))

\* one sheet row of save_data: '' for a missing key and for None
SheetRow(item, keys) ==
    [j \in DOMAIN keys |-> CellText(Get(item, keys[j], StrV("")))]

\* the rows without the header row
SheetRowsNoHeader(data) ==
    [i \in DOMAIN data |-> SheetRow(data[i], FirstSeen(AllKeys(data)))]

\* rows = [keys] + one row per item
SheetRows(data) ==
    LET keys == save_keys(data)
    IN <<keys>> \o [i \in DOMAIN data |-> SheetRow(data[i], keys)]

\* save_data(data): the file and the sheet it leaves
save_data(cfg, remote, data, f, sh) ==
    IF cfg /\ (remote = "ok" \/ (remote = "fail_update" /\ data = <<>>))
    THEN [file |-> f,
          sheet |-> IF data = <<>> THEN <<>> ELSE SheetRows(data),
          served |-> "sheet", warning |-> ""]
    ELSE [file |-> save_to_json(data),
          sheet |-> IF cfg /\ remote = "fail_update" THEN <<>> ELSE sh,
          served |-> IF cfg THEN "fallback" ELSE "file",
          warning |-> IF cfg THEN "save" ELSE ""]

----------------------------------------------------------------------------
\* One run of main(): from the loaded list and the session state to the page.

Letters == {"A", "B", "C", "D"}

\* the text_area fields of the edit form, in the order they are written back
TextFields == <<"topic", "prompt", "optA", "optB", "optC", "optD", "explanation">>

\* the order of the texts of the model under Python's <
TextRank == <<"", " ", "1", "2", "A", "B", "n", "q", "x">>

RankOf(s) == CHOOSE i \in DOMAIN TextRank : TextRank[i] = s

\* a < b on two values of one type
ValueLess(a, b) ==
    IF a.t = "int" THEN a.n < b.n ELSE RankOf(a.s) < RankOf(b.s)

\* set([q['Chapter'] for q in questions])
ChapterSet(qs) == {Get(qs[i], "Chapter", NoneV) : i \in DOMAIN qs}

\* q['Chapter'] raises KeyError on a record without the key, sorted() raises
\* TypeError on values of two types
ChaptersOk(qs) ==
    /\ \A i \in DOMAIN qs : Has(qs[i], "Chapter")
    /\ \A a, b \in ChapterSet(qs) : a.t = b.t

\* chapters[0] of sorted(...)
FirstChapter(qs) ==
    CHOOSE c \in ChapterSet(qs) : \A d \in ChapterSet(qs) : ~ValueLess(d, c)

\* the positions in questions of the records of chapter ch, in order
RECURSIVE ChapterPositions(_, _)
ChapterPositions(qs, ch) ==
    IF qs = <<>> THEN <<>>
    ELSE LET n == Len(qs)
             init == ChapterPositions(SubSeq(qs, 1, n - 1), ch)
         IN IF Get(qs[n], "Chapter", NoneV) = ch THEN Append(init, n) ELSE init

\* chapter_questions = [q for q in questions if q['Chapter'] == selected_chapter]
chapter_questions(qs, ch) ==
    LET pos == ChapterPositions(qs, ch) IN [i \in DOMAIN pos |-> qs[pos[i]]]

\* the bounds check one off: an index equal to the length passes
BoundIndexOffByOne(idx, n) == IF idx > n THEN 0 ELSE idx

\* "Ensure index is within bounds"
BoundIndex(idx, n) == IF idx >= n THEN 0 ELSE idx

\* the selectbox: it keeps its value while its options are the same, and
\* shows the first option when they are not
SelectValue(qs, oldqs, sel) ==
    IF oldqs # <<>> /\ ChaptersOk(oldqs) /\ ChapterSet(oldqs) = ChapterSet(qs)
       /\ sel \in ChapterSet(qs)
    THEN sel ELSE FirstChapter(qs)

\* the run after load_data() returned ld: the page, and the session state
\* the run leaves.  A run that raises or returns early leaves it untouched.
RunMain(ld, oldqs, sel, idx) ==
    IF ~ld.ok \/ (ld.data # <<>> /\ ~ChaptersOk(ld.data))
    THEN [page |-> "error", sel |-> sel, idx |-> idx]
    ELSE IF ld.data = <<>>
    THEN [page |-> "empty", sel |-> sel, idx |-> idx]
    ELSE LET ch == SelectValue(ld.data, oldqs, sel)
         IN [page |-> "review", sel |-> ch,
             idx |-> BoundIndex(idx, Len(chapter_questions(ld.data, ch)))]

\* current_q of the page shown
current_q == chapter_questions(questions, selected_chapter)[current_index + 1]

\* the position in questions of the record the page shows
DisplayedPos == ChapterPositions(questions, selected_chapter)[current_index + 1]

\* original_index = questions.index(current_q), as a 1-based position
original_index == ListIndex(questions, current_q)

total_questions == Len(chapter_questions(questions, selected_chapter))

\* status = current_q.get('status', 'unchecked')
status == Get(current_q, "status", StrV("unchecked"))

\* ['A', 'B', 'C', 'D'].index(...) raises ValueError on any other value, and
\* the form then shows no submit button
FormRenders ==
    LET a == Get(current_q, "answer", StrV("A"))
    IN a.t = "str" /\ a.s \in Letters

----------------------------------------------------------------------------
\* The edit form and the handlers of main().

\* bool(v)
Truthy(v) == (v.t = "int" /\ v.n # 0) \/ (v.t = "str" /\ v.s # "")

\* what a widget of the form returns: the typed value for the widget the
\* reviewer changed (inp.f), the value it was filled with for the others
FormValue(q, k, inp) ==
    IF inp.f = k THEN inp.v
    ELSE IF k = "answer" THEN Get(q, "answer", StrV("A"))
    ELSE IF k = "merge_note"
    THEN (IF Truthy(Get(q, k, StrV(""))) THEN Get(q, k, StrV("")) ELSE StrV(""))
    ELSE Get(q, k, StrV(""))

RECURSIVE WriteTexts(_, _, _, _)
WriteTexts(r, q, inp, n) ==
    IF n = 0 THEN r
    ELSE SetItem(WriteTexts(r, q, inp, n - 1), TextFields[n],
                 FormValue(q, TextFields[n], inp))

\* the nine assignments of "if save_button:", made on record r with the form
\* that was filled from q
ApplyEdits(r, q, inp) ==
    LET r1 == WriteTexts(r, q, inp, 6)
        r2 == SetItem(r1, "answer", FormValue(q, "answer", inp))
        r3 == SetItem(r2, "explanation", FormValue(q, "explanation", inp))
        note == FormValue(q, "merge_note", inp)
    IN SetItem(r3, "merge_note", IF Truthy(note) THEN note ELSE NoneV)

\* the position the handlers write to
TargetPos == original_index

\* what the reviewer can do to the form before "Save Changes": leave it as
\* it was filled, type a prompt, or type a merge note
FormInputs ==
    { [f |-> "none", v |-> NoneV],
      [f |-> "prompt", v |-> StrV("x")],
      [f |-> "merge_note", v |-> StrV("n")] }

NoInput == [f |-> "none", v |-> NoneV]

Call(name, served, ok, data) ==
    [op |-> name, served |-> served, ok |-> ok, data |-> data]

\* the trail keeps the last three store calls
Push(t, e) == IF Len(t) >= 3 THEN Append(Tail(t), e) ELSE Append(t, e)

\* save_data(m); st.cache_data.clear(); st.rerun(): the store is written,
\* the next run loads it again and renders
SaveAndRerun(m, sremote, lremote) ==
    LET sv == save_data(remoteConfigured, sremote, m, file, sheet)
        ld == load_data(remoteConfigured, lremote, sv.file, sv.sheet)
        run == RunMain(ld, questions, selected_chapter, current_index)
    IN /\ file' = sv.file
       /\ sheet' = sv.sheet
       /\ questions' = ld.data
       /\ page' = run.page
       /\ selected_chapter' = run.sel
       /\ current_index' = run.idx
       /\ warning' = ld.warning
       /\ trail' = Push(Push(trail, Call("save", sv.served, TRUE, m)),
                        Call("load", ld.served, ld.ok, ld.data))
       /\ saves' = saves + 1

SelectChapter(ch) ==
    /\ page = "review"
    /\ ch \in ChapterSet(questions)
    /\ ch # selected_chapter
    /\ selected_chapter' = ch
    /\ current_index' = BoundIndex(current_index, Len(chapter_questions(questions, ch)))
    /\ op' = [name |-> "select", inp |-> NoInput]
    /\ UNCHANGED <<file, sheet, remoteConfigured, questions, page, edit_mode,
                   warning, trail, saves, export>>

Previous ==
    /\ page = "review"
    /\ current_index' = IF current_index > 0 THEN current_index - 1 ELSE current_index
    /\ op' = [name |-> "previous", inp |-> NoInput]
    /\ UNCHANGED <<file, sheet, remoteConfigured, questions, page, selected_chapter,
                   edit_mode, warning, trail, saves, export>>

\* "Next" that goes round to the first question after the last
NextQuestionWraps ==
    /\ page = "review"
    /\ current_index' = (current_index + 1) % total_questions
    /\ op' = [name |-> "next", inp |-> NoInput]
    /\ UNCHANGED <<file, sheet, remoteConfigured, questions, page, selected_chapter,
                   edit_mode, warning, trail, saves, export>>

NextQuestion ==
    /\ page = "review"
    /\ current_index' = IF current_index < total_questions - 1
                        THEN current_index + 1 ELSE current_index
    /\ op' = [name |-> "next", inp |-> NoInput]
    /\ UNCHANGED <<file, sheet, remoteConfigured, questions, page, selected_chapter,
                   edit_mode, warning, trail, saves, export>>

ToggleMode ==
    /\ page = "review"
    /\ edit_mode' = ~edit_mode
    /\ op' = [name |-> "toggle", inp |-> NoInput]
    /\ UNCHANGED <<file, sheet, remoteConfigured, questions, page, selected_chapter,
                   current_index, warning, trail, saves, export>>

CancelEdits ==
    /\ page = "review"
    /\ edit_mode
    /\ FormRenders
    /\ edit_mode' = FALSE
    /\ op' = [name |-> "cancel", inp |-> NoInput]
    /\ UNCHANGED <<file, sheet, remoteConfigured, questions, page, selected_chapter,
                   current_index, warning, trail, saves, export>>

ConfirmEdits(inp, sremote, lremote) ==
    /\ page = "review"
    /\ edit_mode
    /\ FormRenders
    /\ saves < MaxSaves
    /\ SaveAndRerun([questions EXCEPT ![TargetPos] = ApplyEdits(@, current_q, inp)],
                    sremote, lremote)
    /\ edit_mode' = FALSE
    /\ op' = [name |-> "confirm", inp |-> inp]
    /\ UNCHANGED <<remoteConfigured, export>>

MarkChecked(sremote, lremote) ==
    /\ page = "review"
    /\ ~edit_mode
    /\ status # StrV("checked")
    /\ saves < MaxSaves
    /\ SaveAndRerun([questions EXCEPT ![TargetPos] = SetItem(@, "status", StrV("checked"))],
                    sremote, lremote)
    /\ op' = [name |-> "check", inp |-> NoInput]
    /\ UNCHANGED <<remoteConfigured, edit_mode, export>>

Uncheck(sremote, lremote) ==
    /\ page = "review"
    /\ ~edit_mode
    /\ status = StrV("checked")
    /\ saves < MaxSaves
    /\ SaveAndRerun([questions EXCEPT ![TargetPos] = SetItem(@, "status", StrV("unchecked"))],
                    sremote, lremote)
    /\ op' = [name |-> "uncheck", inp |-> NoInput]
    /\ UNCHANGED <<remoteConfigured, edit_mode, export>>

----------------------------------------------------------------------------
\* The review session.

RecPool ==
    { <<Entry("Chapter", IntV(1)), Entry("prompt", StrV("q"))>>,
      <<Entry("Chapter", IntV(2)), Entry("prompt", StrV("q")),
        Entry("status", StrV("checked"))>> }

SeqsUpTo(S, n) == UNION {[1..k -> S] : k \in 0..n}

NoExport == [written |-> FALSE, header |-> <<>>, rows |-> <<>>]

\* the first run of a session
Init ==
    \E c \in SeqsUpTo(RecPool, MaxRecs), cfg \in BOOLEAN, local \in BOOLEAN,
       lremote \in {"ok", "read"} :
        LET f == IF local THEN JsonDump(c) ELSE AbsentFile
            sh == IF cfg THEN SheetRows(c) ELSE <<>>
            ld == load_data(cfg, lremote, f, sh)
            run == RunMain(ld, <<>>, NoneV, 0)
        IN /\ (cfg \/ lremote = "ok")
           /\ (cfg => local /\ Len(c) <= MaxSheetRecs)
           /\ file = f
           /\ sheet = sh
           /\ remoteConfigured = cfg
           /\ questions = ld.data
           /\ page = run.page
           /\ selected_chapter = run.sel
           /\ current_index = run.idx
           /\ edit_mode = FALSE
           /\ warning = ld.warning
           /\ op = [name |-> "init", inp |-> NoInput]
           /\ trail = <<Call("load", ld.served, ld.ok, ld.data)>>
           /\ saves = 0
           /\ export = NoExport

\* what the remote calls of a handler can do; without the configuration
\* none is made
Remotes ==
    IF remoteConfigured THEN SaveOutcomes \X {"ok", "read"} ELSE {<<"ok", "ok">>}

Next ==
    \/ \E ch \in ChapterSet(questions) : SelectChapter(ch)
    \/ Previous
    \/ NextQuestion
    \/ ToggleMode
    \/ CancelEdits
    \/ \E inp \in FormInputs, r \in Remotes : ConfirmEdits(inp, r[1], r[2])
    \/ \E r \in Remotes : MarkChecked(r[1], r[2])
    \/ \E r \in Remotes : Uncheck(r[1], r[2])

Spec == Init /\ [][Next]_vars

----------------------------------------------------------------------------
\* Properties of the review session.

\* the list the last handler handed to save_data
SavedList(t) == t[Len(t) - 1].data

\* C1: confirmEdits writes the supplied values onto the record at the
\* original-collection position of the record displayed, and leaves every
\* other record of the collection as it was.
C1_ConfirmWritesDisplayedRecord ==
    [][op'.name = "confirm" =>
         LET m == SavedList(trail')
         IN /\ Len(m) = Len(questions)
            /\ DictEq(m[DisplayedPos],
                      ApplyEdits(questions[DisplayedPos], current_q, op'.inp))
            /\ \A i \in DOMAIN questions :
                  i # DisplayedPos => DictEq(m[i], questions[i])]_vars

\* C2 as stated: a switch to another chapter always leaves current_index 0.
C2_SelectAlwaysResets ==
    [][op'.name = "select" => current_index' = 0]_vars

\* C2 as amended: a switch to another chapter leaves current_index as it
\* was when the new chapter has a record at that index, and sets it to 0
\* when it has not.
C2_SelectKeepsValidIndex ==
    [][op'.name = "select" =>
         /\ selected_chapter' # selected_chapter
         /\ current_index' =
              IF current_index < Len(chapter_questions(questions', selected_chapter'))
              THEN current_index ELSE 0]_vars

C2_Witness ==
    /\ op.name = "select"
    /\ current_index >= 1
    /\ total_questions >= 2

\* C3: on every page that offers it, setStatus(true) followed by
\* setStatus(false) on the displayed record gives back a collection equal to
\* the one before: same fields, same values, no other record changed.
C3_StatusToggleRestores ==
    (page = "review" /\ ~edit_mode /\ status # StrV("checked")) =>
        LET m1 == [questions EXCEPT ![TargetPos] = SetItem(@, "status", StrV("checked"))]
            q1 == chapter_questions(m1, selected_chapter)[current_index + 1]
            m2 == [m1 EXCEPT ![ListIndex(m1, q1)] = SetItem(@, "status", StrV("unchecked"))]
        IN /\ Get(q1, "status", StrV("unchecked")) = StrV("checked")
           /\ ListEq(m2, questions)

\* C8: previous() at index 0 and next() at the last index of the filtered
\* subsequence change nothing; otherwise they move the index by exactly
\* one; the index stays inside [0, len(filtered) - 1].
C8_NavigationBounded ==
    [][(op'.name \in {"previous", "next"}) =>
         /\ page = "review" /\ page' = "review"
         /\ questions' = questions
         /\ selected_chapter' = selected_chapter
         /\ edit_mode' = edit_mode
         /\ file' = file /\ sheet' = sheet
         /\ current_index \in 0..(total_questions - 1)
         /\ current_index' \in 0..(total_questions - 1)
         /\ (op'.name = "previous" =>
               current_index' = IF current_index = 0 THEN 0 ELSE current_index - 1)
         /\ (op'.name = "next" =>
               current_index' = IF current_index = total_questions - 1
                                THEN current_index ELSE current_index + 1)]_vars

C8_Witness ==
    /\ op.name = "next"
    /\ total_questions >= 2
    /\ current_index = total_questions - 1

----------------------------------------------------------------------------
\* The record store on its own: load_data() and save_data() called one after
\* the other, and a process that stops while data.json is being written.

StorePool ==
    { <<Entry("Chapter", IntV(1)), Entry("prompt", StrV("q")),
        Entry("status", StrV("checked"))>>,
      <<Entry("prompt", StrV("x")), Entry("Chapter", StrV("2"))>>,
      <<Entry("Chapter", StrV("x")), Entry("prompt", StrV(" ")),
        Entry("merge_note", NoneV)>> }

SheetOf(c) == IF c = <<>> THEN <<>> ELSE SheetRows(c)

StoreInit ==
    \E c \in SeqsUpTo(StorePool, MaxStoreRecs), d \in SeqsUpTo(StorePool, MaxSheetRecs),
       cfg \in BOOLEAN, local \in BOOLEAN :
        /\ (~local => c = <<>>)
        /\ (~cfg => d = <<>>)
        /\ file = IF local THEN JsonDump(c) ELSE AbsentFile
        /\ sheet = SheetOf(d)
        /\ remoteConfigured = cfg
        /\ questions = <<>>
        /\ page = "none"
        /\ selected_chapter = NoneV
        /\ current_index = 0
        /\ edit_mode = FALSE
        /\ warning = ""
        /\ op = [name |-> "init", inp |-> NoInput]
        /\ trail = <<>>
        /\ saves = 0
        /\ export = NoExport

\* questions = load_data()
LoadData(remote) ==
    LET ld == load_data(remoteConfigured, remote, file, sheet)
    IN /\ questions' = IF ld.ok THEN ld.data ELSE questions
       /\ warning' = ld.warning
       /\ op' = [name |-> IF ld.ok THEN "load" ELSE "load_error", inp |-> NoInput]
       /\ trail' = Push(trail, Call("load", ld.served, ld.ok, ld.data))
       /\ UNCHANGED <<file, sheet, remoteConfigured, page, selected_chapter,
                      current_index, edit_mode, saves, export>>

\* save_data(questions), of the list the last load returned
SaveData(remote) ==
    LET sv == save_data(remoteConfigured, remote, questions, file, sheet)
    IN /\ op.name \in {"load", "save"}
       /\ file' = sv.file
       /\ sheet' = sv.sheet
       /\ warning' = sv.warning
       /\ op' = [name |-> "save", inp |-> NoInput]
       /\ trail' = Push(trail, Call("save", sv.served, TRUE, questions))
       /\ UNCHANGED <<remoteConfigured, questions, page, selected_chapter,
                      current_index, edit_mode, saves, export>>

\* save_data(questions) on its way through _save_to_json: the process stops
\* after open(path, 'w') and n objects of the dump
SaveCrash(remote, n) ==
    LET sv == save_data(remoteConfigured, remote, questions, file, sheet)
    IN /\ op.name \in {"load", "save"}
       /\ sv.served # "sheet"
       /\ file' = TruncatedFile(questions, n)
       /\ sheet' = sv.sheet
       /\ warning' = sv.warning
       /\ op' = [name |-> "crash", inp |-> NoInput]
       /\ trail' = <<>>
       /\ UNCHANGED <<remoteConfigured, questions, page, selected_chapter,
                      current_index, edit_mode, saves, export>>

StoreNext ==
    \/ \E remote \in LoadOutcomes : LoadData(remote)
    \/ \E remote \in SaveOutcomes : SaveData(remote)
    \/ \E remote \in SaveOutcomes, n \in 0..Len(questions) : SaveCrash(remote, n)

StoreSpec == StoreInit /\ [][StoreNext]_vars

----------------------------------------------------------------------------
\* The exporter, json_to_csv.py.

\* the keys without the move of 'Chapter'
csv_keys_unmoved(records) == FirstSeen(AllKeys(records))

\* keys of write_csv: first-seen union, 'Chapter' moved to the front
csv_keys(records) ==
    LET keys == FirstSeen(AllKeys(records))
    IN IF "Chapter" \in Range(keys)
       THEN <<"Chapter">> \o SelectSeq(keys, LAMBDA k : k # "Chapter")
       ELSE keys

\* the text csv.DictWriter writes for a value; None is written as ''
CsvText(v) == IF v.t = "int" THEN ToStr(v.n) ELSE v.s

write_csv(records) ==
    LET keys == csv_keys(records)
    IN [written |-> TRUE,
        header |-> keys,
        rows |-> [i \in DOMAIN records |->
                    [j \in DOMAIN keys |-> CsvText(Get(records[i], keys[j], NoneV))]]]

\* main() of json_to_csv.py normalizes Chapter before it writes
ExportChapter(r) ==
    IF Has(r, "Chapter") /\ Get(r, "Chapter", NoneV) # NoneV
    THEN LET c == PyInt(Get(r, "Chapter", NoneV))
         IN IF c.ok THEN SetItem(r, "Chapter", c.v) ELSE r
    ELSE r

ExportPool ==
    { <<Entry("Chapter", IntV(1)), Entry("prompt", StrV("q"))>>,
      <<Entry("prompt", StrV("x")), Entry("merge_note", StrV("n")),
        Entry("Chapter", StrV("2"))>>,
      <<Entry("prompt", StrV("q"))>>,
      <<Entry("status", StrV("checked")), Entry("prompt", NoneV)>> }

ExportInit ==
    \E c \in SeqsUpTo(ExportPool, MaxExportRecs) :
        /\ file = JsonDump(c)
        /\ sheet = <<>>
        /\ remoteConfigured = FALSE
        /\ questions = <<>>
        /\ page = "none"
        /\ selected_chapter = NoneV
        /\ current_index = 0
        /\ edit_mode = FALSE
        /\ warning = ""
        /\ op = [name |-> "init", inp |-> NoInput]
        /\ trail = <<>>
        /\ saves = 0
        /\ export = NoExport

\* python json_to_csv.py
ExportCsv ==
    LET j == load_from_json(file)
    IN /\ file.exists
       /\ j.ok
       /\ export' = write_csv([i \in DOMAIN j.data |-> ExportChapter(j.data[i])])
       /\ op' = [name |-> "export", inp |-> NoInput]
       /\ UNCHANGED <<file, sheet, remoteConfigured, questions, page, selected_chapter,
                      current_index, edit_mode, warning, trail, saves>>

ExportNext == ExportCsv

ExportSpec == ExportInit /\ [][ExportNext]_vars

----------------------------------------------------------------------------
\* Properties of the record store.

LastCall == trail[Len(trail)]

\* the store a call was served by
StoreOf(e) == IF e.served = "sheet" THEN "sheet" ELSE "file"

\* the trail is load, save, load, each served by the same store
IsRoundTrip ==
    /\ Len(trail) = 3
    /\ trail[1].op = "load" /\ trail[1].ok
    /\ trail[2].op = "save"
    /\ trail[3].op = "load"
    /\ StoreOf(trail[1]) = StoreOf(trail[2])
    /\ StoreOf(trail[2]) = StoreOf(trail[3])

\* C4: load, save of the loaded collection, load again: the second load
\* returns a collection equal to the first in record order, field names and
\* values, for the local file and for the sheet.
C4_RoundTrip ==
    IsRoundTrip =>
        /\ trail[3].ok
        /\ ListEq(trail[2].data, trail[1].data)
        /\ ListEq(trail[3].data, trail[1].data)

C4_Witness ==
    /\ IsRoundTrip
    /\ StoreOf(trail[1]) = "sheet"
    /\ Len(trail[1].data) >= 2
    /\ \E i \in DOMAIN trail[1].data :
          \E j \in DOMAIN trail[1].data[i] : trail[1].data[i][j].v = NoneV

\* C5: a load whose remote calls fail (import, credentials, open or read)
\* returns, or raises, exactly as a load without remote configuration does:
\* the content of data.json, or the empty list when data.json is absent.
C5_FallbackIsLocalLoad ==
    (op.name \in {"load", "load_error"} /\ LastCall.served = "fallback") =>
        LET plain == load_data(FALSE, "ok", file, sheet)
        IN /\ LastCall.ok = plain.ok
           /\ LastCall.data = plain.data
           /\ warning = "load"
           /\ (~file.exists => LastCall.ok /\ LastCall.data = <<>>)
           /\ (file.exists /\ file.whole =>
                 LastCall.ok /\ ListEq(LastCall.data, file.objs))

C5_Witness ==
    /\ op.name = "load"
    /\ remoteConfigured
    /\ LastCall.served = "fallback"
    /\ Len(LastCall.data) >= 1
    /\ sheet # <<>>

\* C6: a process that stops during a local save leaves data.json holding
\* the complete previous collection or the complete new one.
C6_LocalSaveAtomic ==
    [][op'.name = "crash" =>
         \/ file' = file /\ file.whole
         \/ file' = JsonDump(questions)]_vars

\* the chapter value of stored record i as the backing store holds it
StoredChapter(e, i) ==
    IF e.served = "sheet"
    THEN Get(get_all_records(sheet)[i], "Chapter", NoneV)
    ELSE Get(DictOf(file.objs[i]), "Chapter", NoneV)

\* C7: after every load, whichever store served it, a chapter that is
\* present, not null and parses as an integer is an integer; one that does
\* not parse keeps its original value; the load does not raise over it.
C7_ChapterCoercedAfterLoad ==
    (op.name = "load") =>
        \A i \in DOMAIN questions :
            LET r == questions[i]
                orig == StoredChapter(LastCall, i)
            IN (Has(r, "Chapter") /\ orig # NoneV) =>
                   IF PyInt(orig).ok
                   THEN Get(r, "Chapter", NoneV) = PyInt(orig).v
                   ELSE Get(r, "Chapter", NoneV) = orig

\* position of the first record that has key k, and of k inside it
FirstRecordWith(data, k) ==
    CHOOSE i \in DOMAIN data :
        Has(data[i], k) /\ \A j \in 1..(i - 1) : ~Has(data[j], k)

PlaceIn(d, k) == CHOOSE i \in DOMAIN d : d[i].k = k

\* k is seen before l when the records are scanned front to back
SeenBefore(data, k, l) ==
    LET rk == FirstRecordWith(data, k)
        rl == FirstRecordWith(data, l)
    IN rk < rl \/ (rk = rl /\ PlaceIn(data[rk], k) < PlaceIn(data[rl], l))

OccurringKeys(data) == UNION {Range(KeysOf(data[i])) : i \in DOMAIN data}

\* keys lists every occurring key once, those of positions from..Len in
\* first-seen order
IsKeyUnion(keys, data, from) ==
    /\ Range(keys) = OccurringKeys(data)
    /\ \A a, b \in DOMAIN keys : a # b => keys[a] # keys[b]
    /\ \A a, b \in from..Len(keys) : a < b => SeenBefore(data, keys[a], keys[b])

\* the Field Set: first-seen union with Chapter moved to the front
IsFieldSet(keys, data) ==
    IF "Chapter" \in OccurringKeys(data)
    THEN keys # <<>> /\ keys[1] = "Chapter" /\ IsKeyUnion(keys, data, 2)
    ELSE IsKeyUnion(keys, data, 1)

\* the rows under the header hold the records' values in header order, ''
\* for a missing or null value
RowsMatch(sh, data) ==
    /\ Len(sh) = Len(data) + 1
    /\ \A i \in DOMAIN data :
          /\ Len(sh[i + 1]) = Len(sh[1])
          /\ \A j \in DOMAIN sh[1] :
                sh[i + 1][j] =
                    IF Has(data[i], sh[1][j]) /\ Get(data[i], sh[1][j], NoneV) # NoneV
                    THEN CellText(Get(data[i], sh[1][j], NoneV))
                    ELSE ""

SavedToSheet == op.name = "save" /\ LastCall.served = "sheet"

ValuedFields(r) ==
    LET c == CoerceChapter(r)
    IN {c[i] : i \in {j \in DOMAIN c :
                        ~(c[j].v = NoneV \/ (c[j].v.t = "str" /\ IsBlank(c[j].v.s)))}}

\* two collections that differ in nothing but empty-string / null values
SameUpToBlanks(a, b) ==
    /\ Len(a) = Len(b)
    /\ \A i \in DOMAIN a : ValuedFields(a[i]) = ValuedFields(b[i])

\* the call before the last one
PrevCall == trail[Len(trail) - 1]

\* C11: read-your-writes across the store fallback: a load that follows a
\* save_data(collection) that returned returns that collection, up to
\* empty-string / null normalisation, whatever the remote store did in
\* the save and in the load.
C11_ReadYourWrites ==
    (Len(trail) >= 2 /\ LastCall.op = "load" /\ PrevCall.op = "save") =>
        /\ LastCall.ok
        /\ SameUpToBlanks(LastCall.data, PrevCall.data)

----------------------------------------------------------------------------
\* Properties of the exporter.

\* C9: the exporter's field list holds each occurring field name once, has
\* 'Chapter' at index 0 exactly when some record has it, and keeps the
\* other names in first-seen order.
C9_ExportFieldList ==
    export.written =>
        LET data == file.objs
            keys == export.header
        IN /\ Range(keys) = OccurringKeys(data)
           /\ \A a, b \in DOMAIN keys : a # b => keys[a] # keys[b]
           /\ ((keys # <<>> /\ keys[1] = "Chapter")
                 <=> (\E i \in DOMAIN data : Has(data[i], "Chapter")))
           /\ \A a, b \in DOMAIN keys :
                 (a < b /\ keys[a] # "Chapter" /\ keys[b] # "Chapter")
                     => SeenBefore(data, keys[a], keys[b])

C9_Witness ==
    /\ export.written
    /\ Len(file.objs) >= 2
    /\ Len(export.header) >= 3
    /\ export.header[1] = "Chapter"
    /\ ~Has(file.objs[1], "Chapter")

====
